---- MODULE Spec2Model ----
(***************************************************************************)
(* Model of the data-account program's instruction processor               *)
(* (program/src/processor.rs): InitializeDataAccount, UpdateDataAccount    *)
(* and CloseDataAccount, run against a small ledger of accounts.           *)
(*                                                                         *)
(* The ledger runtime is the processor's collaborator.  What the model     *)
(* takes from it: the system program's create_account and transfer as the  *)
(* processor invokes them, realloc, the rent minimum balance, program      *)
(* address derivation, the verification of an instruction's direct         *)
(* account writes, the roll-back of a failed instruction and the removal   *)
(* of zero-balance accounts when a transaction ends.                       *)
(***************************************************************************)
EXTENDS Integers, Sequences, FiniteSets, TLC

VARIABLES accounts, pre, dirty, last

vars == <<accounts, pre, dirty, last>>

(***************************************************************************)
(* Bounds of the model.                                                    *)
(***************************************************************************)
\* width of the lamport and length integers (u64 and usize in the program)
U64Bits == 6
\* bytes of an address as stored in the metadata record (32 on the ledger)
PubkeyLen == 2
\* largest space an Initialize asks for, largest end of an Update's write
MaxSpace == 2
\* largest byte value an Update writes
MaxByte == 1
\* largest data_type value an Update carries
MaxDataType == 1
\* steps that change the ledger in one behaviour, before its last request
MaxCommitted == 3

U64Max == 2^U64Bits - 1

(***************************************************************************)
(* Addresses.  An address is a number; 0 is the all-zero address.          *)
(***************************************************************************)
Wallets == {1, 2}
Units == {3, 4}

\* the (unit, bump) pairs whose hash falls on the curve, for which the
\* derivation fails
OnCurve == {<<4, 255>>}

\* Pubkey::create_program_address(&[PDA_SEED, unit, &[bump]], program_id)
CreateProgramAddress(unit, bump) ==
    IF <<unit, bump>> \in OnCurve
    THEN [ok |-> FALSE, key |-> 0]
    ELSE [ok |-> TRUE, key |-> 1000 + 256 * unit + bump]

RECURSIVE FindBumpFrom(_, _)
FindBumpFrom(unit, bump) ==
    IF CreateProgramAddress(unit, bump).ok
    THEN bump
    ELSE FindBumpFrom(unit, bump - 1)

\* Pubkey::find_program_address(&[PDA_SEED, unit], program_id): the first
\* bump, counting down from 255, whose derivation succeeds
FindProgramAddress(unit) ==
    LET bump_seed == FindBumpFrom(unit, 255)
    IN  [pda |-> CreateProgramAddress(unit, bump_seed).key, bump_seed |-> bump_seed]

MetaAddrs == {FindProgramAddress(u).pda : u \in Units}

Keys == Wallets \cup Units \cup MetaAddrs

(***************************************************************************)
(* The metadata record and its encoding.                                   *)
(***************************************************************************)
UNINITIALIZED == 0
INITIALIZED == 1
UPDATED == 2
FINALIZED == 3
UNVERIFIED == 0
DATA_VERSION == 0
CUSTOM == 0

METADATA_SIZE == 6 + PubkeyLen

Zeros(n) == [i \in 1..n |-> 0]

\* the bytes of an address
KeyBytes(key) == [i \in 1..PubkeyLen |-> IF i = 1 THEN key ELSE 0]

BoolByte(b) == IF b THEN 1 ELSE 0

\* DataAccountMetadata::new
NewMetadata(data_status, serialization_status, authority, dynamic, data_version, data_type, bump_seed) ==
    [data_status |-> data_status,
     serialization_status |-> serialization_status,
     authority |-> authority,
     dynamic |-> dynamic,
     data_version |-> data_version,
     data_type |-> data_type,
     bump_seed |-> bump_seed]

\* BorshSerialize for DataAccountMetadata
Serialize(md) ==
    <<md.data_status, md.serialization_status>> \o KeyBytes(md.authority)
        \o <<BoolByte(md.dynamic), md.data_version, md.data_type, md.bump_seed>>

\* whether try_from_slice accepts the bytes: the exact length, enum tags and
\* the bool in range
CanDeserialize(bytes) ==
    /\ Len(bytes) = METADATA_SIZE
    /\ bytes[1] \in 0..3
    /\ bytes[2] \in 0..1
    /\ bytes[PubkeyLen + 3] \in 0..1

\* DataAccountMetadata::try_from_slice
Deserialize(bytes) ==
    [data_status |-> bytes[1],
     serialization_status |-> bytes[2],
     authority |-> bytes[3],
     dynamic |-> bytes[PubkeyLen + 3] = 1,
     data_version |-> bytes[PubkeyLen + 4],
     data_type |-> bytes[PubkeyLen + 5],
     bump_seed |-> bytes[PubkeyLen + 6]]

\* DataAccountMetadata::set_data_type
SetDataType(md, data_type) ==
    [md EXCEPT !.data_status = UPDATED, !.data_type = data_type]

(***************************************************************************)
(* The ledger collaborator.                                                *)
(***************************************************************************)
RentOverhead == 1

\* Rent::minimum_balance
MinimumBalance(space) == (RentOverhead + space) % (U64Max + 1)

\* MAX_PERMITTED_DATA_INCREASE, what one instruction may add to an account
MaxPermittedDataIncrease == U64Max \div 4

SaturatingSub(a, b) == IF a > b THEN a - b ELSE 0

Result(res, acc) == [res |-> res, acc |-> acc]

\* mutant: an account that is already in use is created over
CreateAccount_OverExisting(acc, from, to, lamports, space, from_signer, from_writable, to_signer, to_writable) ==
    IF ~(from_signer /\ from_writable /\ to_signer /\ to_writable)
    THEN Result("PrivilegeEscalation", acc)
    ELSE IF acc[from].lamports < lamports
    THEN Result("InsufficientFunds", acc)
    ELSE Result("Ok",
                [acc EXCEPT ![from].lamports = @ - lamports,
                            ![to] = [lamports |-> lamports,
                                     data |-> Zeros(space),
                                     owner |-> "program"]])

\* system_instruction::create_account, invoked by the processor
CreateAccount(acc, from, to, lamports, space, from_signer, from_writable, to_signer, to_writable) ==
    IF ~(from_signer /\ from_writable /\ to_signer /\ to_writable)
    THEN Result("PrivilegeEscalation", acc)
    ELSE IF acc[to].lamports > 0 \/ acc[to].data # <<>> \/ acc[to].owner # "system"
    THEN Result("AccountAlreadyInUse", acc)
    ELSE IF acc[from].lamports < lamports
    THEN Result("InsufficientFunds", acc)
    ELSE Result("Ok",
                [acc EXCEPT ![from].lamports = @ - lamports,
                            ![to] = [lamports |-> lamports,
                                     data |-> Zeros(space),
                                     owner |-> "program"]])

\* system_instruction::transfer, invoked by the processor
Transfer(acc, from, to, lamports, from_signer, from_writable, to_writable) ==
    IF ~(from_signer /\ from_writable /\ to_writable)
    THEN Result("PrivilegeEscalation", acc)
    ELSE IF acc[from].lamports < lamports
    THEN Result("InsufficientFunds", acc)
    ELSE IF acc[to].lamports + lamports > U64Max
    THEN Result("ArithmeticOverflow", acc)
    ELSE Result("Ok",
                [acc EXCEPT ![from].lamports = @ - lamports,
                            ![to].lamports = @ + lamports])

\* AccountInfo::realloc(new_len, false): the kept prefix, zeros beyond it
Realloc(bytes, new_len) ==
    [i \in 1..new_len |-> IF i <= Len(bytes) THEN bytes[i] ELSE 0]

TotalLamports(acc) ==
    LET RECURSIVE Sum(_)
        Sum(S) == IF S = {} THEN 0
                  ELSE LET k == CHOOSE x \in S : TRUE
                       IN  acc[k].lamports + Sum(S \ {k})
    IN  Sum(Keys)

\* the runtime's verification of what an instruction that returned Ok did to
\* the accounts: balances add up, and only the owner changed an account's data
Verify(before, after) ==
    IF TotalLamports(before) # TotalLamports(after)
    THEN "UnbalancedInstruction"
    ELSE IF \E k \in Keys : /\ before[k].owner = "system"
                            /\ after[k].owner = "system"
                            /\ before[k].data # after[k].data
    THEN "ExternalAccountDataModified"
    ELSE "Ok"

(***************************************************************************)
(* The processor.  A request names three accounts with their signer and    *)
(* writable flags and carries the instruction's arguments.  Each handler   *)
(* returns its result and the accounts as it leaves them.                  *)
(***************************************************************************)
\* mutant: the record stores the first bump tried, not the one found
InitialMetadata_FirstBump(r, bump_seed) ==
    NewMetadata(INITIALIZED, UNVERIFIED, r.args_authority, r.is_dynamic,
                DATA_VERSION, CUSTOM, 255)

\* mutant: the record stores the signer's address, not the payload's
InitialMetadata_SignerAsAuthority(r, bump_seed) ==
    NewMetadata(INITIALIZED, UNVERIFIED, r.authority, r.is_dynamic,
                DATA_VERSION, CUSTOM, bump_seed)

\* create initial state for data_account metadata
InitialMetadata(r, bump_seed) ==
    NewMetadata(INITIALIZED, UNVERIFIED, r.args_authority, r.is_dynamic,
                DATA_VERSION, CUSTOM, bump_seed)

InitializeDataAccount(acc, r) ==
    LET authority == r.authority
        data_account == r.data_account
        metadata_account == r.metadata_account
        \* create a data_account of given space if not done so already
        created ==
            IF ~r.is_created
            THEN CreateAccount(acc, authority, data_account,
                               MinimumBalance(r.space), r.space,
                               r.authority_is_signer, r.authority_is_writable,
                               r.data_is_signer, r.data_is_writable)
            ELSE Result("Ok", acc)
    IN  IF created.res # "Ok" THEN created
        ELSE
        LET filled == [created.acc EXCEPT
                          ![data_account].data = Zeros(Len(@))]
            found == FindProgramAddress(data_account)
        IN  IF found.pda # metadata_account THEN Result("InvalidPDA", filled)
            ELSE
            LET pda_created ==
                    CreateAccount(filled, authority, metadata_account,
                                  MinimumBalance(METADATA_SIZE), METADATA_SIZE,
                                  r.authority_is_signer, r.authority_is_writable,
                                  TRUE, r.metadata_is_writable)
                account_metadata == InitialMetadata(r, found.bump_seed)
            IN  IF pda_created.res # "Ok"
                THEN Result(pda_created.res, filled)
                ELSE Result("Ok",
                            [pda_created.acc EXCEPT ![metadata_account].data =
                                Serialize(account_metadata)])

\* mutant: a static unit is resized like a dynamic one
NewLen_IgnoresDynamic(dynamic, realloc_down, old_len, end_len) ==
    IF realloc_down THEN end_len
    ELSE IF old_len > end_len THEN old_len ELSE end_len

\* mutant: a dynamic unit always ends where the write ends
NewLen_AlwaysEnd(dynamic, realloc_down, old_len, end_len) ==
    IF ~dynamic THEN old_len ELSE end_len

\* the length an Update leaves the unit with
NewLen(dynamic, realloc_down, old_len, end_len) ==
    IF ~dynamic THEN old_len
    ELSE IF realloc_down THEN end_len
    ELSE IF old_len > end_len THEN old_len ELSE end_len

\* mutant: the top-up of a growing unit is computed for a shrinking one too
LamportsDiff_AlwaysTopUp(old_len, new_len, lamports, new_minimum_balance) ==
    SaturatingSub(new_minimum_balance, lamports)

\* mutant: the refund of a shrinking unit is computed for a growing one too
LamportsDiff_AlwaysRefund(old_len, new_len, lamports, new_minimum_balance) ==
    SaturatingSub(lamports, new_minimum_balance)

\* what a resize moves: to the unit when it grows, to the authority when it
\* shrinks
LamportsDiff(old_len, new_len, lamports, new_minimum_balance) ==
    IF old_len < new_len
    THEN SaturatingSub(new_minimum_balance, lamports)
    ELSE SaturatingSub(lamports, new_minimum_balance)

\* the resize of UpdateDataAccount, entered when old_len # new_len
Resize(acc, r, old_len, new_len) ==
    LET authority == r.authority
        data_account == r.data_account
        new_minimum_balance == MinimumBalance(new_len)
        lamports_diff == LamportsDiff(old_len, new_len,
                                      acc[data_account].lamports,
                                      new_minimum_balance)
        moved ==
            IF old_len < new_len
            THEN Transfer(acc, authority, data_account, lamports_diff,
                          r.authority_is_signer, r.authority_is_writable,
                          r.data_is_writable)
            ELSE IF acc[authority].lamports + lamports_diff > U64Max
            THEN Result("Overflow", acc)
            ELSE Result("Ok",
                        [acc EXCEPT
                            ![authority].lamports = @ + lamports_diff,
                            ![data_account].lamports = new_minimum_balance])
    IN  IF moved.res # "Ok" THEN moved
        ELSE IF new_len > old_len + MaxPermittedDataIncrease
        THEN Result("InvalidRealloc", moved.acc)
        ELSE Result("Ok", [moved.acc EXCEPT ![data_account].data =
                                                Realloc(@, new_len)])

\* mutant: the signer flags are not read
UpdateNotSigner_Never(r) == FALSE

\* ensure authority and data_account are signer
UpdateNotSigner(r) == ~r.authority_is_signer \/ ~r.data_is_signer

\* mutant: the status is not read
NotInitialized_Never(account_metadata) == FALSE

\* ensure data_account is initialized
NotInitialized(account_metadata) == account_metadata.data_status = UNINITIALIZED

\* mutant: the data is written from the unit's start
CopyFromSlice_AtStart(bytes, offset, end_len, data) ==
    [i \in 1..Len(bytes) |-> IF i <= Len(data) THEN data[i] ELSE bytes[i]]

\* data[offset..end_len].copy_from_slice(&args.data)
CopyFromSlice(bytes, offset, end_len, data) ==
    [i \in 1..Len(bytes) |->
        IF i > offset /\ i <= end_len THEN data[i - offset] ELSE bytes[i]]

\* mutant: the authority is not compared
InvalidAuthority_Never(account_metadata, authority) == FALSE

\* ensure data_account is being written to, or closed, by valid authority
InvalidAuthority(account_metadata, authority) ==
    account_metadata.authority # authority

\* mutant: the derived address is not compared
InvalidPDA_Never(pda, metadata_account) == FALSE

\* ensure the metadata_account corresponds to the data_account
InvalidPDA(pda, metadata_account) == pda.key # metadata_account

\* mutant: the space of a static unit is not checked
InsufficientSpace_Never(dynamic, old_len, end_len) == FALSE

\* ensure static data_account has sufficient space
InsufficientSpace(dynamic, old_len, end_len) == ~dynamic /\ old_len < end_len

\* mutant: the record is written back as it was read
UpdatedMetadata_Unchanged(account_metadata, r) == account_metadata

\* update the metadata_account
UpdatedMetadata(account_metadata, r) == SetDataType(account_metadata, r.data_type)

UpdateDataAccount(acc, r) ==
    LET authority == r.authority
        data_account == r.data_account
        metadata_account == r.metadata_account
    IN  \* ensure authority and data_account are signer
        IF UpdateNotSigner(r)
        THEN Result("NotSigner", acc)
        \* ensure authority, data_account, and metadata_account are writable
        ELSE IF \/ ~r.authority_is_writable
                \/ ~r.data_is_writable
                \/ ~r.metadata_is_writable
        THEN Result("NotWriteable", acc)
        \* ensure length is not 0
        ELSE IF acc[metadata_account].data = <<>>
        THEN Result("NoAccountLength", acc)
        ELSE IF ~CanDeserialize(acc[metadata_account].data)
        THEN Result("BorshIoError", acc)
        ELSE
        LET account_metadata == Deserialize(acc[metadata_account].data)
            pda == CreateProgramAddress(data_account, account_metadata.bump_seed)
            old_len == Len(acc[data_account].data)
            \* usize addition, wrapping as the release build does
            end_len == (r.offset + Len(r.data)) % (U64Max + 1)
            new_len == NewLen(account_metadata.dynamic, r.realloc_down,
                              old_len, end_len)
        IN  \* ensure data_account is initialized
            IF NotInitialized(account_metadata)
            THEN Result("NotInitialized", acc)
            \* ensure data_account is being written to by valid authority
            ELSE IF InvalidAuthority(account_metadata, authority)
            THEN Result("InvalidAuthority", acc)
            \* ensure the metadata_account corresponds to the data_account
            ELSE IF ~pda.ok
            THEN Result("InvalidSeeds", acc)
            ELSE IF InvalidPDA(pda, metadata_account)
            THEN Result("InvalidPDA", acc)
            \* ensure static data_account has sufficient space
            ELSE IF InsufficientSpace(account_metadata.dynamic, old_len, end_len)
            THEN Result("InsufficientSpace", acc)
            ELSE
            LET \* update the metadata_account
                written == [acc EXCEPT ![metadata_account].data =
                               Serialize(UpdatedMetadata(account_metadata, r))]
                \* ensure data_account has enough space by reallocing if needed
                resized == IF old_len # new_len
                           THEN Resize(written, r, old_len, new_len)
                           ELSE Result("Ok", written)
            IN  IF resized.res # "Ok" THEN resized
                \* update the data_account
                ELSE IF \/ r.offset > end_len
                        \/ end_len > Len(resized.acc[data_account].data)
                THEN Result("Panic", resized.acc)
                ELSE Result("Ok",
                            [resized.acc EXCEPT ![data_account].data =
                                CopyFromSlice(@, r.offset, end_len, r.data)])

\* ensure authority is signer
CloseNotSigner(r) == ~r.authority_is_signer

\* mutant: the account's bytes are not reset
Drained_KeepsBytes(acc, authority, account) ==
    [acc EXCEPT ![authority].lamports = @ + acc[account].lamports,
                ![account].lamports = 0]

\* transfer the account's lamports back to authority and reset the account
Drained(acc, authority, account) ==
    [acc EXCEPT ![authority].lamports = @ + acc[account].lamports,
                ![account].lamports = 0,
                ![account].data = Zeros(Len(@))]

CloseDataAccount(acc, r) ==
    LET authority == r.authority
        data_account == r.data_account
        metadata_account == r.metadata_account
    IN  \* ensure authority is signer
        IF CloseNotSigner(r)
        THEN Result("NotSigner", acc)
        \* ensure authority, data_account, and metadata_account are writable
        ELSE IF \/ ~r.authority_is_writable
                \/ ~r.data_is_writable
                \/ ~r.metadata_is_writable
        THEN Result("NotWriteable", acc)
        \* ensure length is not 0
        ELSE IF acc[data_account].data = <<>> \/ acc[metadata_account].data = <<>>
        THEN Result("NoAccountLength", acc)
        ELSE IF ~CanDeserialize(acc[metadata_account].data)
        THEN Result("BorshIoError", acc)
        ELSE
        LET account_metadata == Deserialize(acc[metadata_account].data)
            pda == CreateProgramAddress(data_account, account_metadata.bump_seed)
        IN  \* ensure data_account is initialized
            IF NotInitialized(account_metadata)
            THEN Result("NotInitialized", acc)
            \* ensure data_account is being closed by valid authority
            ELSE IF InvalidAuthority(account_metadata, authority)
            THEN Result("InvalidAuthority", acc)
            \* ensure the metadata_account corresponds to the data_account
            ELSE IF ~pda.ok
            THEN Result("InvalidSeeds", acc)
            ELSE IF InvalidPDA(pda, metadata_account)
            THEN Result("InvalidPDA", acc)
            \* transfer metadata_account lamports back to authority and reset
            ELSE IF acc[authority].lamports + acc[metadata_account].lamports > U64Max
            THEN Result("Overflow", acc)
            ELSE
            LET drained == Drained(acc, authority, metadata_account)
            IN  \* transfer data_account lamports back to authority and reset
                IF drained[authority].lamports + drained[data_account].lamports
                       > U64Max
                THEN Result("Overflow", drained)
                ELSE Result("Ok", Drained(drained, authority, data_account))

\* Processor::process_instruction
ProcessInstruction(acc, r) ==
    CASE r.op = "Initialize" -> InitializeDataAccount(acc, r)
      [] r.op = "Update" -> UpdateDataAccount(acc, r)
      [] r.op = "Close" -> CloseDataAccount(acc, r)

(***************************************************************************)
(* Requests.                                                               *)
(***************************************************************************)
\* the byte sequences of length at most n over 1..MaxByte
RECURSIVE DataOfLen(_)
DataOfLen(n) ==
    IF n = 0 THEN {<<>>}
    ELSE {Append(d, b) : d \in DataOfLen(n - 1), b \in 1..MaxByte}

Datas == UNION {DataOfLen(n) : n \in 0..MaxSpace}

\* the offsets of an Update: those within a unit, and the largest u64
Offsets == 0..MaxSpace \cup {U64Max}

\* the signer and writable flags of the three accounts
Flags ==
    [authority_is_signer : BOOLEAN, authority_is_writable : BOOLEAN,
     data_is_signer : BOOLEAN, data_is_writable : BOOLEAN,
     metadata_is_writable : BOOLEAN]

NoArgs ==
    [is_created |-> FALSE, space |-> 0, args_authority |-> 0,
     is_dynamic |-> FALSE, offset |-> 0, data |-> <<>>, data_type |-> 0,
     realloc_down |-> FALSE]

Request(op, authority, data_account, metadata_account, f, args) ==
    [op |-> op,
     authority |-> authority,
     data_account |-> data_account,
     metadata_account |-> metadata_account,
     authority_is_signer |-> f.authority_is_signer,
     authority_is_writable |-> f.authority_is_writable,
     data_is_signer |-> f.data_is_signer,
     data_is_writable |-> f.data_is_writable,
     metadata_is_writable |-> f.metadata_is_writable,
     is_created |-> args.is_created,
     space |-> args.space,
     args_authority |-> args.args_authority,
     is_dynamic |-> args.is_dynamic,
     offset |-> args.offset,
     data |-> args.data,
     data_type |-> args.data_type,
     realloc_down |-> args.realloc_down]

\* space is read only when the processor creates the unit
InitializeArgs ==
    {[NoArgs EXCEPT !.space = s, !.args_authority = a, !.is_dynamic = d] :
        s \in 0..MaxSpace, a \in Wallets, d \in BOOLEAN}
    \cup
    {[NoArgs EXCEPT !.is_created = TRUE, !.args_authority = a, !.is_dynamic = d] :
        a \in Wallets, d \in BOOLEAN}

\* the writes end within MaxSpace, or start at the largest u64
Writes ==
    {w \in Offsets \X Datas : w[1] = U64Max \/ w[1] + Len(w[2]) <= MaxSpace}

UpdateArgs ==
    {[NoArgs EXCEPT !.offset = w[1], !.data = w[2], !.data_type = t,
                    !.realloc_down = rd] :
        w \in Writes, t \in 0..MaxDataType, rd \in BOOLEAN}

(***************************************************************************)
(* The state machine.  accounts is the ledger; last is the latest request  *)
(* with the processor's result (res), the instruction's outcome (outcome)  *)
(* and the number of committed steps; pre is the ledger the request ran    *)
(* against and dirty the accounts as the processor left them on return.    *)
(***************************************************************************)
NoAccount == [lamports |-> 0, data |-> <<>>, owner |-> "system"]

InitialAccounts ==
    [k \in Keys |->
        IF k = 1 THEN [NoAccount EXCEPT !.lamports = 3 * MinimumBalance(METADATA_SIZE)]
        ELSE IF k = 2 THEN [NoAccount EXCEPT !.lamports = U64Max - METADATA_SIZE]
        ELSE NoAccount]

\* all flags set, and the record of a step that is no request
AllSet ==
    [authority_is_signer |-> TRUE, authority_is_writable |-> TRUE,
     data_is_signer |-> TRUE, data_is_writable |-> TRUE,
     metadata_is_writable |-> TRUE]

NoRequest(op) == Request(op, 0, 0, 0, AllSet, NoArgs)

Init ==
    /\ accounts = InitialAccounts
    /\ pre = InitialAccounts
    /\ dirty = InitialAccounts
    /\ last = [req |-> NoRequest("None"), res |-> "None", outcome |-> "Ok",
               committed |-> 0]

\* A rejected request leaves the ledger as it was, so the requests that can
\* follow it are those of the state it was submitted in: they are explored
\* from there, and a behaviour ends with its first rejected request.
Running == last.outcome = "Ok"

\* the runtime runs the processor on a request, verifies what it did, and
\* keeps the result or rolls it back
Submit(r) ==
    LET out == ProcessInstruction(accounts, r)
        outcome == IF out.res = "Ok" THEN Verify(accounts, out.acc) ELSE out.res
    IN  /\ Running
        /\ last.committed < MaxCommitted
        /\ accounts' = IF outcome = "Ok" THEN out.acc ELSE accounts
        /\ pre' = accounts
        /\ dirty' = out.acc
        /\ last' = [req |-> r, res |-> out.res, outcome |-> outcome,
                    committed |-> IF outcome = "Ok" THEN last.committed + 1
                                  ELSE last.committed]

\* the arguments tried with every combination of flags
PlainArgs(op) ==
    CASE op = "Initialize" ->
             {[NoArgs EXCEPT !.is_created = c, !.space = 1, !.args_authority = 1] :
                 c \in BOOLEAN}
      [] op = "Update" -> {[NoArgs EXCEPT !.data = <<1>>]}
      [] op = "Close" -> {NoArgs}

ArgsOf(op) ==
    CASE op = "Initialize" -> InitializeArgs
      [] op = "Update" -> UpdateArgs
      [] op = "Close" -> {NoArgs}

\* The requests explored.  For the first unit: every argument with each
\* choice of wallet and metadata address when all flags are set, and every
\* combination of flags with each wallet for the plain arguments.  For the
\* second unit: the plain arguments, all flags set.
Requests(op) ==
    {Request(op, authority, 3, metadata_account, AllSet, args) :
        authority \in Wallets, metadata_account \in MetaAddrs,
        args \in ArgsOf(op)}
    \cup
    {Request(op, authority, 3, FindProgramAddress(3).pda, f, args) :
        authority \in Wallets, f \in Flags, args \in PlainArgs(op)}
    \cup
    {Request(op, authority, 4, metadata_account, AllSet, args) :
        authority \in Wallets, metadata_account \in MetaAddrs,
        args \in PlainArgs(op)}

Initialize == \E r \in Requests("Initialize") : Submit(r)

Update == \E r \in Requests("Update") : Submit(r)

Close == \E r \in Requests("Close") : Submit(r)

\* a party outside the program creates a unit and assigns it to the program,
\* for a later Initialize with is_created = true
ExternalCreate ==
    \E unit \in {3}, space \in 0..MaxSpace, funded \in BOOLEAN :
        /\ Running
        /\ accounts[unit] = NoAccount
        /\ last.committed < MaxCommitted
        /\ accounts' = [accounts EXCEPT ![unit] =
                           [lamports |-> IF funded
                                         THEN MinimumBalance(space) + 1
                                         ELSE 1,
                            data |-> Zeros(space),
                            owner |-> "program"]]
        /\ pre' = accounts
        /\ dirty' = accounts'
        /\ last' = [req |-> NoRequest("ExternalCreate"), res |-> "None",
                    outcome |-> "Ok", committed |-> last.committed + 1]

\* the transaction ends: the runtime removes the accounts left without balance
EndTransaction ==
    /\ Running
    /\ \E k \in Keys : accounts[k].lamports = 0 /\ accounts[k] # NoAccount
    /\ accounts' = [k \in Keys |->
                       IF accounts[k].lamports = 0 THEN NoAccount
                       ELSE accounts[k]]
    /\ pre' = accounts
    /\ dirty' = accounts'
    /\ last' = [req |-> NoRequest("EndTransaction"), res |-> "None",
                outcome |-> "Ok", committed |-> last.committed]

Next == Initialize \/ Update \/ Close \/ ExternalCreate \/ EndTransaction

Spec == Init /\ [][Next]_vars

(***************************************************************************)
(* Properties.  A request succeeds when the processor returns Ok; dirty is *)
(* then the accounts as it leaves them, and the ledger too unless the      *)
(* runtime's verification rejects what it did.  A request fails when the   *)
(* processor returns an error; the ledger is then as before the request.   *)
(***************************************************************************)
Succeeded(op) == last.req.op = op /\ last.res = "Ok"

Failed(op) == last.req.op = op /\ last.res # "Ok"

\* the bytes of the metadata account the request names, before the request
NamedMetadata == pre[last.req.metadata_account].data

\* the bytes of the metadata record of the request's unit, at its derived
\* address, before the request
OwnMetadata == pre[FindProgramAddress(last.req.data_account).pda].data

\* the bytes hold a metadata record of an initialized unit
IsRecord(bytes) ==
    CanDeserialize(bytes) /\ Deserialize(bytes).data_status # UNINITIALIZED

FlagsSet ==
    /\ last.req.authority_is_signer /\ last.req.authority_is_writable
    /\ last.req.data_is_signer /\ last.req.data_is_writable
    /\ last.req.metadata_is_writable

\* C1: after every Initialize that succeeds, the metadata record at the
\* address the caller supplied has status INITIALIZED, the authority of the
\* request's payload, and a bump from which the unit's address derives that
\* address.
C1_InitializeWritesMetadata ==
    Succeeded("Initialize") =>
        LET bytes == dirty[last.req.metadata_account].data
            md == Deserialize(bytes)
        IN  /\ accounts = dirty
            /\ CanDeserialize(bytes)
            /\ md.data_status = INITIALIZED
            /\ md.authority = last.req.args_authority
            /\ CreateProgramAddress(last.req.data_account, md.bump_seed)
                   = [ok |-> TRUE, key |-> last.req.metadata_account]

\* an Initialize succeeded for the unit whose first bump derives no address,
\* with a payload authority other than the signer
C1_Witness ==
    /\ Succeeded("Initialize")
    /\ last.req.data_account = 4
    /\ last.req.args_authority # last.req.authority

\* C2 as stated: after a successful Initialize the record's authority is
\* the address of the signer that performed it.
C2_AuthorityIsSigner ==
    Succeeded("Initialize") =>
        Deserialize(dirty[last.req.metadata_account].data).authority
            = last.req.authority

\* C2, amended: after a successful Initialize the record's authority is the
\* authority address of the request's payload, which need not be the signer;
\* and no Update, successful or failed, changes the authority of any
\* metadata record.
C2_AuthorityFixed ==
    /\ Succeeded("Initialize") =>
           Deserialize(dirty[last.req.metadata_account].data).authority
               = last.req.args_authority
    /\ last.req.op = "Update" =>
           \A m \in MetaAddrs : \A after \in {accounts, dirty} :
               IsRecord(pre[m].data) =>
                   /\ IsRecord(after[m].data)
                   /\ Deserialize(after[m].data).authority
                          = Deserialize(pre[m].data).authority

\* an Update succeeded, signed by the wallet that a record names as its
\* authority and that has paid for no Initialize
C2_Witness ==
    /\ Succeeded("Update")
    /\ last.req.authority = 2
    /\ pre[2].lamports = InitialAccounts[2].lamports

\* C3 as stated: an Update whose signer is not the authority of the metadata
\* record fails with InvalidAuthority and changes nothing.
C3_AlwaysInvalidAuthority ==
    (/\ last.req.op = "Update"
     /\ last.req.authority_is_signer
     /\ IsRecord(NamedMetadata)
     /\ Deserialize(NamedMetadata).authority # last.req.authority)
    => last.res = "InvalidAuthority" /\ accounts = pre

\* C3, amended: an Update whose signer is not the authority of the metadata
\* record always fails and leaves every account as it was; the error is
\* InvalidAuthority when the data unit signed too and the three accounts
\* are writable, and NotSigner or NotWriteable when not.
C3_WrongSignerRejected ==
    (/\ last.req.op = "Update"
     /\ last.req.authority_is_signer
     /\ IsRecord(NamedMetadata)
     /\ Deserialize(NamedMetadata).authority # last.req.authority)
    => /\ accounts = pre /\ dirty = pre
       /\ last.res = IF ~last.req.data_is_signer THEN "NotSigner"
                     ELSE IF ~FlagsSet THEN "NotWriteable"
                     ELSE "InvalidAuthority"

\* an Update signed by another wallet than the record's authority failed
\* with InvalidAuthority, on a unit that holds bytes
C3_Witness ==
    /\ Failed("Update")
    /\ last.res = "InvalidAuthority"
    /\ pre[last.req.data_account].data # <<>>
    /\ last.req.metadata_account = FindProgramAddress(last.req.data_account).pda

\* whether the address the request names as metadata derives from its unit
\* and the bump stored in the record
DerivedFromStoredBump ==
    CreateProgramAddress(last.req.data_account,
                         Deserialize(NamedMetadata).bump_seed)
        = [ok |-> TRUE, key |-> last.req.metadata_account]

\* C4 as stated: an Update or Close that names a metadata record whose
\* address does not derive from the unit and the stored bump fails with the
\* address-derivation error and changes nothing.
C4_AlwaysDerivationError ==
    (/\ last.req.op \in {"Update", "Close"}
     /\ IsRecord(NamedMetadata)
     /\ ~DerivedFromStoredBump)
    => last.res \in {"InvalidPDA", "InvalidSeeds"} /\ accounts = pre

\* C4, amended: such an Update or Close never succeeds and changes no
\* account; the error is the address-derivation one (InvalidPDA, or
\* InvalidSeeds when the stored bump derives no address from the unit) when
\* the checks made before it pass: the flags, for Close a unit that holds
\* bytes, and the authority.
C4_ForeignMetadataRejected ==
    (/\ last.req.op \in {"Update", "Close"}
     /\ IsRecord(NamedMetadata)
     /\ ~DerivedFromStoredBump)
    => /\ last.res # "Ok" /\ accounts = pre /\ dirty = pre
       /\ (/\ FlagsSet
           /\ last.req.op = "Close" => pre[last.req.data_account].data # <<>>
           /\ Deserialize(NamedMetadata).authority = last.req.authority)
          => last.res =
                 IF CreateProgramAddress(last.req.data_account,
                        Deserialize(NamedMetadata).bump_seed).ok
                 THEN "InvalidPDA" ELSE "InvalidSeeds"

\* an Update of one initialized unit named the metadata record of the other
\* one and failed with InvalidPDA
C4_Witness ==
    /\ Failed("Update")
    /\ last.res = "InvalidPDA"
    /\ IsRecord(OwnMetadata)
    /\ IsRecord(NamedMetadata)
    /\ NamedMetadata # OwnMetadata

\* C5: an Update, successful or failed, of a unit whose metadata record has
\* dynamic = false leaves the unit's length as it was, whatever the offset,
\* the data and realloc_down.
C5_StaticLengthFixed ==
    (/\ last.req.op = "Update"
     /\ IsRecord(OwnMetadata)
     /\ ~Deserialize(OwnMetadata).dynamic)
    => /\ Len(accounts[last.req.data_account].data)
              = Len(pre[last.req.data_account].data)
       /\ Len(dirty[last.req.data_account].data)
              = Len(pre[last.req.data_account].data)

\* an Update with realloc_down succeeded on a static unit, writing a range
\* that ends before the unit's end
C5_Witness ==
    /\ Succeeded("Update")
    /\ ~Deserialize(OwnMetadata).dynamic
    /\ last.req.realloc_down
    /\ last.req.offset + Len(last.req.data) < Len(pre[last.req.data_account].data)

Credited == dirty[last.req.authority].lamports - pre[last.req.authority].lamports

\* a successful Update with realloc_down on a dynamic unit
ReallocDown ==
    /\ Succeeded("Update")
    /\ last.req.realloc_down
    /\ Deserialize(NamedMetadata).dynamic

CloseOfOwnUnit ==
    /\ last.req.op = "Close"
    /\ pre[last.req.data_account].data # <<>>
    /\ IsRecord(NamedMetadata)
    /\ DerivedFromStoredBump
    /\ Deserialize(NamedMetadata).authority = last.req.authority

\* C8: Close requires the data unit, not the authority, to be a signer: a
\* Close whose data unit did not sign fails with NotSigner, and a Close of
\* one's own unit whose authority is writable but did not sign succeeds
\* when the unit signed and the unit and the metadata are writable.
C8_CloseSignerIsUnit ==
    /\ (last.req.op = "Close" /\ ~last.req.data_is_signer)
           => last.res = "NotSigner"
    /\ (/\ CloseOfOwnUnit
        /\ ~last.req.authority_is_signer /\ last.req.authority_is_writable
        /\ last.req.data_is_signer /\ last.req.data_is_writable
        /\ last.req.metadata_is_writable)
           => last.res = "Ok"

\* C9: after a successful Close every byte of the metadata record and of
\* the unit is zero, both balances are 0, and the authority holds what it
\* held before plus the two balances.
C9_CloseDrainsAndZeroes ==
    Succeeded("Close") =>
        LET m == last.req.metadata_account
            d == last.req.data_account
            a == last.req.authority
        IN  /\ accounts = dirty
            /\ dirty[m].data = Zeros(Len(pre[m].data))
            /\ dirty[d].data = Zeros(Len(pre[d].data))
            /\ dirty[m].lamports = 0
            /\ dirty[d].lamports = 0
            /\ dirty[a].lamports
                   = pre[a].lamports + pre[m].lamports + pre[d].lamports

\* a Close succeeded on a unit that an Update had written to
C9_Witness ==
    /\ Succeeded("Close")
    /\ pre[last.req.data_account].data
           # Zeros(Len(pre[last.req.data_account].data))
    /\ Deserialize(NamedMetadata).data_status = UPDATED

\* C10: an Initialize succeeds only if the authority and the data unit are
\* both signer and writable, with is_created false or true; and an
\* Initialize with is_created = true whose data unit did not sign leaves the
\* unit's bytes as they were.
C10_InitializeNeedsFlags ==
    /\ Succeeded("Initialize") =>
           /\ last.req.authority_is_signer /\ last.req.authority_is_writable
           /\ last.req.data_is_signer /\ last.req.data_is_writable
    /\ (/\ last.req.op = "Initialize"
        /\ last.req.is_created /\ ~last.req.data_is_signer)
           => dirty[last.req.data_account].data
                  = pre[last.req.data_account].data

\* C11: an Initialize for a unit whose metadata record exists with a status
\* other than UNINITIALIZED returns an error, and the unit and every metadata
\* record keep their prior values; so does every other account.
C11_ReinitializeRejected ==
    (last.req.op = "Initialize" /\ IsRecord(OwnMetadata))
    => last.res # "Ok" /\ accounts = pre

\* an Initialize with is_created = true was rejected for an initialized unit
\* that holds non-zero bytes, by the wallet that is its authority
C11_Witness ==
    /\ Failed("Initialize")
    /\ last.req.is_created
    /\ FlagsSet
    /\ IsRecord(OwnMetadata)
    /\ NamedMetadata = OwnMetadata
    /\ Deserialize(OwnMetadata).authority = last.req.authority
    /\ pre[last.req.data_account].data
           # Zeros(Len(pre[last.req.data_account].data))

\* the end of the range an Update writes, offset + data.length
EndLen == last.req.offset + Len(last.req.data)

\* the unit's bytes before the request and as the processor leaves them
OldData == pre[last.req.data_account].data

NewData == dirty[last.req.data_account].data

\* C12: a successful Update on a dynamic unit with realloc_down = false
\* leaves the unit max(old_len, offset + data.length) long; and no Update
\* with realloc_down = false, successful or failed, on any unit, makes the
\* unit shorter, in the processor's view or on the ledger.
C12_DynamicNeverShrinks ==
    /\ (/\ Succeeded("Update")
        /\ Deserialize(NamedMetadata).dynamic
        /\ ~last.req.realloc_down)
       => Len(NewData) = IF Len(OldData) > EndLen THEN Len(OldData) ELSE EndLen
    /\ (last.req.op = "Update" /\ ~last.req.realloc_down)
       => /\ Len(NewData) >= Len(OldData)
          /\ Len(accounts[last.req.data_account].data) >= Len(OldData)

\* a successful Update with realloc_down = false wrote a range that ends
\* before the end of a dynamic unit
C12_Witness ==
    /\ Succeeded("Update")
    /\ Deserialize(NamedMetadata).dynamic
    /\ ~last.req.realloc_down
    /\ EndLen < Len(OldData)

\* C13: after a successful Update the bytes [offset, offset + data.length)
\* of the unit equal data, and every byte below min(old_len, new_len)
\* outside that range has the value it had before the request.
C13_WriteFrame ==
    Succeeded("Update") =>
        /\ EndLen <= Len(NewData)
        /\ \A i \in 1..Len(last.req.data) :
               NewData[last.req.offset + i] = last.req.data[i]
        /\ \A i \in 1..Len(OldData) :
               (i <= Len(NewData) /\ (i <= last.req.offset \/ i > EndLen))
                   => NewData[i] = OldData[i]

\* a successful Update grew a unit, writing a non-empty range that leaves
\* out a non-zero byte the unit held
C13_Witness ==
    /\ Succeeded("Update")
    /\ Len(NewData) > Len(OldData)
    /\ last.req.data # <<>>
    /\ \E i \in 1..Len(OldData) :
           (i <= last.req.offset \/ i > EndLen) /\ OldData[i] # 0

\* C14: every successful Update leaves the metadata record with status
\* UPDATED and the request's data_type, whether or not the unit's length
\* changed, and with its authority, dynamic, version and bump unchanged.
C14_UpdateMarksMetadata ==
    Succeeded("Update") =>
        LET bytes == dirty[last.req.metadata_account].data
        IN  /\ CanDeserialize(bytes)
            /\ Deserialize(bytes) =
                   [Deserialize(NamedMetadata) EXCEPT
                       !.data_status = UPDATED,
                       !.data_type = last.req.data_type]

\* a successful Update that left the unit's length as it was changed the
\* data_type of a record that no Update had marked yet
C14_Witness ==
    /\ Succeeded("Update")
    /\ Len(NewData) = Len(OldData)
    /\ Deserialize(NamedMetadata).data_status = INITIALIZED
    /\ Deserialize(NamedMetadata).data_type # last.req.data_type

\* what a growing unit lacks of the minimum balance of its new length
TopUp ==
    LET required == MinimumBalance(Len(NewData))
        held == pre[last.req.data_account].lamports
    IN  IF required > held THEN required - held ELSE 0

\* C15: when a successful Update grows a unit, exactly
\* max(0, minimum_balance(new_len) - old unit balance) moves from the
\* authority to the unit: the unit then holds at least
\* minimum_balance(new_len), the authority that much less, no other
\* balance changes, and the ledger takes the result when the unit is an
\* account of the program.
C15_GrowthTopUp ==
    (Succeeded("Update") /\ Len(OldData) < Len(NewData)) =>
        /\ dirty[last.req.data_account].lamports
               = pre[last.req.data_account].lamports + TopUp
        /\ dirty[last.req.data_account].lamports >= MinimumBalance(Len(NewData))
        /\ dirty[last.req.authority].lamports
               = pre[last.req.authority].lamports - TopUp
        /\ \A k \in Keys \ {last.req.data_account, last.req.authority} :
               dirty[k].lamports = pre[k].lamports
        /\ pre[last.req.data_account].owner = "program" => accounts = dirty

\* a successful Update grew a unit that held less than the minimum balance
\* of its new length
C15_Witness ==
    /\ Succeeded("Update")
    /\ accounts = dirty
    /\ Len(OldData) < Len(NewData)
    /\ TopUp > 0

\* the errors of the validation checks of Update and Close
ValidationErrors ==
    {"NotSigner", "NotWriteable", "NoAccountLength", "NotInitialized",
     "InvalidAuthority", "InvalidSeeds", "InvalidPDA", "InsufficientSpace"}

\* The error of the first condition, in the order signer flags, writable
\* flags, non-empty storage, status, authority, address derivation and, for
\* Update, space, that the request violates in the state it is submitted in;
\* "none" when it violates none.  The signer flags are those the processor
\* reads: both for Update, the authority's for Close.  The space condition
\* is that of a range whose end, offset + data.length, is a usize.
FirstViolated ==
    LET r == last.req
        md == Deserialize(NamedMetadata)
    IN  IF ~r.authority_is_signer \/ (r.op = "Update" /\ ~r.data_is_signer)
        THEN "NotSigner"
        ELSE IF \/ ~r.authority_is_writable
                \/ ~r.data_is_writable
                \/ ~r.metadata_is_writable
        THEN "NotWriteable"
        ELSE IF NamedMetadata = <<>> \/ (r.op = "Close" /\ OldData = <<>>)
        THEN "NoAccountLength"
        ELSE IF md.data_status = UNINITIALIZED
        THEN "NotInitialized"
        ELSE IF md.authority # r.authority
        THEN "InvalidAuthority"
        ELSE IF ~CreateProgramAddress(r.data_account, md.bump_seed).ok
        THEN "InvalidSeeds"
        ELSE IF ~DerivedFromStoredBump
        THEN "InvalidPDA"
        ELSE IF /\ r.op = "Update"
                /\ ~md.dynamic
                /\ Len(OldData) < EndLen
                /\ EndLen <= U64Max
        THEN "InsufficientSpace"
        ELSE "none"

ProcessorErrors == ValidationErrors \cup {"Overflow"}

\* C17: whenever the processor itself rejects an Initialize, Update or
\* Close (a failed signer, writable, non-empty, status, authority or
\* address-derivation check, InsufficientSpace, or an Overflow), it has
\* written nothing before returning the error: the accounts as it leaves
\* them are those it was given.
C17_NoWriteBeforeError ==
    (/\ last.req.op \in {"Initialize", "Update", "Close"}
     /\ last.res \in ProcessorErrors)
    => dirty = pre

\* the balances of the authority, the unit and the metadata record a
\* request names, added up
SumOfThree(acc) ==
    acc[last.req.authority].lamports
        + acc[last.req.data_account].lamports
        + acc[last.req.metadata_account].lamports

\* C18: the sum of the authority's, the unit's and the metadata record's
\* balance is the same before and after every successful Update and every
\* successful Close; a shrinking Update on a unit that holds less than
\* minimum_balance(new_len) does not increase it.
C18_BalanceSumConserved ==
    (Succeeded("Update") \/ Succeeded("Close")) => SumOfThree(dirty) = SumOfThree(pre)

\* C19: a Close of a unit whose metadata record is that of an initialized
\* unit at the address derived from it, issued by the recorded authority
\* with every signer and writable flag set, succeeds whatever the unit's
\* length (0 included), provided the balance additions do not overflow.
C19_CloseAlwaysPossible ==
    (/\ last.req.op = "Close"
     /\ FlagsSet
     /\ IsRecord(NamedMetadata)
     /\ DerivedFromStoredBump
     /\ Deserialize(NamedMetadata).authority = last.req.authority
     /\ SumOfThree(pre) <= U64Max)
    => last.res = "Ok"

\* C20: a successful Close leaves a metadata record that decodes with
\* status UNINITIALIZED; and while the record of a unit is in that state, or
\* gone with the end of the transaction, every Update or Close on the unit
\* fails and changes no byte and no balance, in the processor's view or on
\* the ledger, with NotInitialized when every flag is set and the zeroed
\* record and, for Close, a non-empty unit are named.
C20_ClosedStaysClosed ==
    /\ Succeeded("Close") =>
           /\ CanDeserialize(dirty[last.req.metadata_account].data)
           /\ Deserialize(dirty[last.req.metadata_account].data).data_status
                  = UNINITIALIZED
    /\ (last.req.op \in {"Update", "Close"} /\ ~IsRecord(OwnMetadata)) =>
           /\ last.res # "Ok"
           /\ accounts = pre /\ dirty = pre
           /\ (/\ FlagsSet
               /\ NamedMetadata = OwnMetadata
               /\ NamedMetadata # <<>>
               /\ last.req.op = "Close" => OldData # <<>>)
              => last.res = "NotInitialized"

\* an Update with every flag set, on a unit whose record a Close had
\* zeroed, by the wallet that closed it, failed with NotInitialized
C20_Witness ==
    /\ Failed("Update")
    /\ last.res = "NotInitialized"
    /\ FlagsSet
    /\ OwnMetadata = Zeros(METADATA_SIZE)
    /\ OldData # <<>>
====
